---- MODULE Spec2Model ----
(***************************************************************************)
(* Model of wuerstchen_app.py: the module-level start-up code, the output  *)
(* filename allocator, the seed resolver, the generate() orchestrator and  *)
(* the event wiring of create_demo().                                      *)
(*                                                                         *)
(* The generative stages are deterministic stubs: their results are tuples *)
(* of the arguments and of the generator state they were called with.      *)
(* Each slot is one in-flight event chain (a submit chain, a call of the   *)
(* "run" endpoint or an example run) and the generate() call it leads to.  *)
(* The module takes no lock around get_next_filename()/img.save(), so the  *)
(* steps of generate() calls that are active together may interleave.      *)
(***************************************************************************)
EXTENDS Integers, Sequences, FiniteSets

VARIABLES
    cuda_available,   \* torch.cuda.is_available()
    prior_pipeline,   \* "loaded" | "None"
    decoder_pipeline, \* "loaded" | "None"
    callback_prior,   \* "previewer" | "None" | "unbound"
    outputs,          \* the outputs/ directory: filename -> image content
    seed,             \* value of the Seed slider component
    call,             \* per slot: the event chain and its generate() call
    submitted,        \* number of event chains started so far
    history           \* request -> the batches yielded for it, and how often

vars == <<cuda_available, prior_pipeline, decoder_pipeline, callback_prior,
          outputs, seed, call, submitted, history>>

config == <<cuda_available, prior_pipeline, decoder_pipeline, callback_prior>>

---------------------------------------------------------------------------
(* Bound of the model: the number of event chains started *)

MaxCalls == 2

(* Program constants *)

MAX_SEED == 2147483647
MIN_IMAGE_SIZE == 1024
MAX_IMAGE_SIZE == 2048
SIZE_STEP == 512
DEFAULT_SIZE == 1024
DEFAULT_SEED == 0
DEFAULT_NUM_IMAGES == 1
SEED_SLIDER_VALUE == 0
PREVIEW_IMAGES == TRUE

Slots == {1, 2}

SubmitTriggers == {"prompt.submit", "negative_prompt.submit", "run_button.click"}

\* Values the user gives the Seed slider, and values random.randint returns.
SeedInputs == {0, MAX_SEED}
RandomDraws == {0, MAX_SEED}

\* Values of the "Number of Images" slider.
ImageCounts == {1, 2}

\* Positions of a Width/Height slider: minimum + k * step up to the maximum.
SliderPositions ==
    {x \in MIN_IMAGE_SIZE..MAX_IMAGE_SIZE : (x - MIN_IMAGE_SIZE) % SIZE_STEP = 0}

\* <<width, height>> set on the two sliders.
SliderSizes ==
    {wh \in {<<MIN_IMAGE_SIZE, MAX_IMAGE_SIZE>>} :
        wh[1] \in SliderPositions /\ wh[2] \in SliderPositions}

\* Payloads a client of the "run" endpoint sends: seed, width, height, count.
ApiPayloads ==
    {[seed |-> DEFAULT_SEED, width |-> MIN_IMAGE_SIZE - 1,
      height |-> MAX_IMAGE_SIZE + 1, n |-> DEFAULT_NUM_IMAGES]}

\* Indexes of the img_*.png files outputs/ holds at start-up.
InitialDirs == {{}, {2}, {1, 3}}

---------------------------------------------------------------------------
(* Filename allocator, lines 76-82 *)

RECURSIVE Digits(_)
Digits(n) == IF n < 10 THEN <<n>> ELSE Append(Digits(n \div 10), n % 10)

\* format(index, "04d"): the decimal digits, zero-padded on the left to 4.
Format04d(index) ==
    LET d == Digits(index)
    IN  IF Len(d) >= 4 THEN d ELSE [i \in 1..(4 - Len(d)) |-> 0] \o d

\* f"outputs/img_{index:04d}.png"
Filename(index) ==
    [dir |-> "outputs", stem |-> "img_", num |-> Format04d(index), ext |-> ".png"]

os_path_exists(fs, filename) == filename \in DOMAIN fs

RECURSIVE ScanFrom(_, _)
ScanFrom(fs, index) ==
    IF ~os_path_exists(fs, Filename(index))
    THEN Filename(index)
    ELSE ScanFrom(fs, index + 1)

\* An allocator that appends after the highest index present.
get_next_filename_append(fs) ==
    LET present == {i \in 1..(2 * Cardinality(DOMAIN fs) + 3) :
                        os_path_exists(fs, Filename(i))}
    IN  IF present = {} THEN Filename(1)
        ELSE Filename((CHOOSE m \in present : \A j \in present : j <= m) + 1)

get_next_filename(fs) == ScanFrom(fs, 1)

---------------------------------------------------------------------------
(* Seed resolver, lines 84-87; draw is what random.randint(0, MAX_SEED) gives *)

\* A resolver that ignores the checkbox.
randomize_seed_always(s, randomize, draw) == draw

randomize_seed_fn(s, randomize, draw) == IF randomize THEN draw ELSE s

---------------------------------------------------------------------------
(* Stub stages and the generator *)

\* torch.Generator().manual_seed(seed)
manual_seed(s) == [seed |-> s, pos |-> 0]

\* a stage that samples moves the generator on
Advance(gen) == [gen EXCEPT !.pos = @ + 1]

PriorEmbeddings(req, gen) ==
    <<req.seed, req.width, req.height, req.n, gen.seed, gen.pos>>

DecoderImages(req, emb, gen) ==
    [i \in 1..req.n |-> emb \o <<gen.seed, gen.pos, i>>]

\* content of a file that outputs/ held before start-up
OldImage == <<0>>

NoRequest == [seed |-> 0, width |-> 0, height |-> 0, n |-> 0]
NoGenerator == [seed |-> 0, pos |-> 0]
NoFilename == [dir |-> "", stem |-> "", num |-> <<>>, ext |-> ""]

Idle ==
    [pc |-> "idle", path |-> "none",
     in_seed |-> 0, in_rand |-> FALSE, resolved |-> 0,
     req |-> NoRequest, generator |-> NoGenerator,
     prior_output |-> <<>>, prior_calls |-> 0,
     decoder_output |-> <<>>, decoder_calls |-> 0,
     k |-> 1, filename |-> NoFilename, saved |-> <<>>,
     error |-> "none"]

\* The slot a new event chain takes: the lowest one with no chain in flight.
Free(s) ==
    /\ call[s].pc \in {"idle", "done", "failed"}
    /\ \A t \in Slots : t < s => call[t].pc \notin {"idle", "done", "failed"}

---------------------------------------------------------------------------
(* Module start-up, lines 21-74 *)

StartupPipeline(cuda) == IF cuda THEN "loaded" ELSE "None"

\* callback_prior is assigned only inside "if torch.cuda.is_available():".
StartupCallback(cuda, preview) ==
    IF cuda THEN (IF preview THEN "previewer" ELSE "None") ELSE "unbound"

Init ==
    /\ cuda_available \in BOOLEAN
    /\ prior_pipeline = StartupPipeline(cuda_available)
    /\ decoder_pipeline = StartupPipeline(cuda_available)
    /\ callback_prior = StartupCallback(cuda_available, PREVIEW_IMAGES)
    /\ \E present \in InitialDirs :
           outputs = [f \in {Filename(i) : i \in present} |-> OldImage]
    /\ seed = SEED_SLIDER_VALUE
    /\ call = [s \in Slots |-> Idle]
    /\ submitted = 0
    /\ history = <<>>

---------------------------------------------------------------------------
(* The user moves the Seed slider *)

UserSetSeed(v) ==
    /\ seed # v
    /\ seed' = v
    /\ UNCHANGED <<config, outputs, call, submitted, history>>

---------------------------------------------------------------------------
(* Event wiring of create_demo(), lines 238-293 *)

\* First step of a submit chain: randomize_seed_fn(seed, randomize_seed),
\* queue=False, run at once with the Seed slider's value and the state of the
\* "Randomize seed" checkbox. The three triggers are wired alike.
Submit(s, trigger) ==
    /\ Free(s)
    /\ submitted < MaxCalls
    /\ trigger \in SubmitTriggers
    /\ \E randomize_seed \in BOOLEAN, draw \in RandomDraws :
         call' = [call EXCEPT ![s] =
                    [Idle EXCEPT !.pc = "resolving",
                                 !.path = "submit",
                                 !.in_seed = seed,
                                 !.in_rand = randomize_seed,
                                 !.resolved =
                                     randomize_seed_fn(seed, randomize_seed, draw)]]
    /\ submitted' = submitted + 1
    /\ UNCHANGED <<config, outputs, seed, history>>

\* A wiring that reads generate's inputs before the resolver's result is
\* written to the Seed component.
ThenGenerateStale(s) ==
    /\ call[s].pc = "resolving"
    /\ seed' = call[s].resolved
    /\ \E wh \in SliderSizes, n \in ImageCounts :
         call' = [call EXCEPT ![s].pc = "queued",
                              ![s].req = [seed |-> seed, width |-> wh[1],
                                          height |-> wh[2], n |-> n]]
    /\ UNCHANGED <<config, outputs, submitted, history>>

\* .then(fn=generate, inputs=inputs, outputs=result): the resolver's result is
\* written to the Seed component (outputs=seed), and generate is queued with
\* the components' values.
ThenGenerate(s) ==
    /\ call[s].pc = "resolving"
    /\ seed' = call[s].resolved
    /\ \E wh \in SliderSizes, n \in ImageCounts :
         call' = [call EXCEPT ![s].pc = "queued",
                              ![s].req = [seed |-> seed', width |-> wh[1],
                                          height |-> wh[2], n |-> n]]
    /\ UNCHANGED <<config, outputs, submitted, history>>

\* The "run" endpoint (api_name="run") names the generate step itself: a
\* client's payload reaches generate as sent.
ApiRun(s) ==
    /\ Free(s)
    /\ submitted < MaxCalls
    /\ \E payload \in ApiPayloads :
         call' = [call EXCEPT ![s] =
                    [Idle EXCEPT !.pc = "queued",
                                 !.path = "api.run",
                                 !.req = payload]]
    /\ submitted' = submitted + 1
    /\ UNCHANGED <<config, outputs, seed, history>>

\* gr.Examples(fn=generate, inputs=prompt, cache_examples=CACHE_EXAMPLES):
\* generate(prompt) with the defaults of its signature; CACHE_EXAMPLES needs
\* CUDA.
Examples(s) ==
    /\ cuda_available
    /\ Free(s)
    /\ submitted < MaxCalls
    /\ call' = [call EXCEPT ![s] =
                  [Idle EXCEPT !.pc = "queued",
                               !.path = "examples",
                               !.req = [seed |-> DEFAULT_SEED,
                                        width |-> DEFAULT_SIZE,
                                        height |-> DEFAULT_SIZE,
                                        n |-> DEFAULT_NUM_IMAGES]]]
    /\ submitted' = submitted + 1
    /\ UNCHANGED <<config, outputs, seed, history>>

---------------------------------------------------------------------------
(* generate(), lines 89-130 *)

\* An exception leaves generate(): the frame is gone. What stays is the error,
\* how often each stage was called and the names of the files written.
Raise(s, err) ==
    [call EXCEPT ![s] = [Idle EXCEPT !.pc = "failed",
                                     !.error = err,
                                     !.prior_calls = call[s].prior_calls,
                                     !.decoder_calls = call[s].decoder_calls,
                                     !.saved = call[s].saved]]

\* The frame of generate() when it starts with the queued request.
Frame(s) == [Idle EXCEPT !.path = call[s].path, !.req = call[s].req]

\* lines 101-113: a fresh generator is seeded from the request's seed; the
\* arguments are evaluated (callback_prior is read), then prior_pipeline is
\* called with that generator and returns the embeddings or raises.
PriorStage(s) ==
    /\ call[s].pc = "queued"
    /\ LET generator == manual_seed(call[s].req.seed)
       IN  IF callback_prior = "unbound"
           THEN call' = Raise(s, "NameError")
           ELSE IF prior_pipeline = "None"
           THEN call' = Raise(s, "TypeError")
           ELSE \/ call' = [call EXCEPT ![s] =
                              [Frame(s) EXCEPT
                                 !.pc = "decoder",
                                 !.prior_calls = call[s].prior_calls + 1,
                                 !.prior_output =
                                     PriorEmbeddings(call[s].req, generator),
                                 !.generator = Advance(generator)]]
                \/ call' = [Raise(s, "prior") EXCEPT ![s].prior_calls = @ + 1]
    /\ UNCHANGED <<config, outputs, seed, submitted, history>>

\* A decoder stage that is not given the call's generator and samples from a
\* source whose state differs from call to call.
DecoderStageUnseeded(s) ==
    /\ call[s].pc = "decoder"
    /\ \/ call' = [call EXCEPT
                     ![s].pc = "loop",
                     ![s].decoder_calls = @ + 1,
                     ![s].decoder_output =
                         DecoderImages(call[s].req, call[s].prior_output,
                                       [seed |-> submitted, pos |-> 0])]
       \/ call' = [Raise(s, "decoder") EXCEPT ![s].decoder_calls = @ + 1]
    /\ UNCHANGED <<config, outputs, seed, submitted, history>>

\* lines 115-123: decoder_pipeline(..., generator=generator).images
DecoderStage(s) ==
    /\ call[s].pc = "decoder"
    /\ IF decoder_pipeline = "None"
       THEN call' = Raise(s, "TypeError")
       ELSE \/ call' = [call EXCEPT
                          ![s].pc = "loop",
                          ![s].decoder_calls = @ + 1,
                          ![s].decoder_output =
                              DecoderImages(call[s].req, call[s].prior_output,
                                            call[s].generator),
                          ![s].generator = Advance(@)]
            \/ call' = [Raise(s, "decoder") EXCEPT ![s].decoder_calls = @ + 1]
    /\ UNCHANGED <<config, outputs, seed, submitted, history>>

\* line 127: filename = get_next_filename(), for the k-th image of the batch
Allocate(s) ==
    /\ call[s].pc = "loop"
    /\ call[s].k <= Len(call[s].decoder_output)
    /\ call' = [call EXCEPT ![s].pc = "save",
                            ![s].filename = get_next_filename(outputs)]
    /\ UNCHANGED <<config, outputs, seed, submitted, history>>

\* open(filename, "w+b") and write: the file is created or replaced
WriteFile(fs, filename, img) ==
    [f \in DOMAIN fs \cup {filename} |-> IF f = filename THEN img ELSE fs[f]]

\* A save that, when it fails, removes what the call has saved so far.
SaveImageRollback(s) ==
    /\ call[s].pc = "save"
    /\ \/ /\ outputs' = WriteFile(outputs, call[s].filename,
                                  call[s].decoder_output[call[s].k])
          /\ call' = [call EXCEPT ![s].pc = "loop",
                                  ![s].saved = Append(@, call[s].filename),
                                  ![s].k = @ + 1]
       \/ /\ call' = Raise(s, "save")
          /\ outputs' = [f \in DOMAIN outputs \ {call[s].saved[i] :
                                  i \in 1..Len(call[s].saved)} |-> outputs[f]]
    /\ UNCHANGED <<config, seed, submitted, history>>

\* A save that reports success without writing the file.
SaveImageNoWrite(s) ==
    /\ call[s].pc = "save"
    /\ \/ /\ call' = [call EXCEPT ![s].pc = "loop",
                                  ![s].saved = Append(@, call[s].filename),
                                  ![s].k = @ + 1]
          /\ outputs' = outputs
       \/ /\ call' = Raise(s, "save")
          /\ outputs' = outputs
    /\ UNCHANGED <<config, seed, submitted, history>>

\* line 128: img.save(filename) creates or replaces the file, or raises
SaveImage(s) ==
    /\ call[s].pc = "save"
    /\ \/ /\ outputs' = WriteFile(outputs, call[s].filename,
                                  call[s].decoder_output[call[s].k])
          /\ call' = [call EXCEPT ![s].pc = "loop",
                                  ![s].saved = Append(@, call[s].filename),
                                  ![s].k = @ + 1]
       \/ /\ call' = Raise(s, "save")
          /\ outputs' = outputs
    /\ UNCHANGED <<config, seed, submitted, history>>

\* The record of the batches yielded, with the batch b added for request r.
Record(h, r, b) ==
    [q \in DOMAIN h \cup {r} |->
        IF q = r
        THEN IF r \in DOMAIN h
             THEN [batches |-> h[r].batches \cup {b}, calls |-> h[r].calls + 1]
             ELSE [batches |-> {b}, calls |-> 1]
        ELSE h[q]]

\* line 130: yield decoder_output, after the loop; the batch goes to the
\* caller and the generator function is finished
Yield(s) ==
    /\ call[s].pc = "loop"
    /\ call[s].k > Len(call[s].decoder_output)
    /\ call' = [call EXCEPT ![s] = [Idle EXCEPT !.pc = "done"]]
    /\ history' = Record(history, call[s].req, call[s].decoder_output)
    /\ UNCHANGED <<config, outputs, seed, submitted>>

---------------------------------------------------------------------------

Next ==
    \/ \E v \in SeedInputs : UserSetSeed(v)
    \/ \E s \in Slots, trigger \in SubmitTriggers : Submit(s, trigger)
    \/ \E s \in Slots : ThenGenerate(s)
    \/ \E s \in Slots : ApiRun(s)
    \/ \E s \in Slots : Examples(s)
    \/ \E s \in Slots : PriorStage(s)
    \/ \E s \in Slots : DecoderStage(s)
    \/ \E s \in Slots : Allocate(s)
    \/ \E s \in Slots : SaveImage(s)
    \/ \E s \in Slots : Yield(s)

Spec == Init /\ [][Next]_vars

---------------------------------------------------------------------------
(* Properties *)

Img(digits) == [dir |-> "outputs", stem |-> "img_", num |-> digits, ext |-> ".png"]
Img0001 == Img(<<0, 0, 0, 1>>)
Img0002 == Img(<<0, 0, 0, 2>>)
Img0003 == Img(<<0, 0, 0, 3>>)

Names(fs) == DOMAIN fs

\* The smallest index >= 1 whose file is absent from the directory.
FirstGap(fs) ==
    CHOOSE k \in 1..(Cardinality(Names(fs)) + 1) :
        /\ Filename(k) \notin Names(fs)
        /\ \A j \in 1..(k - 1) : Filename(j) \in Names(fs)

StartedEmpty == \A f \in Names(outputs) : outputs[f] # OldImage

AllocStep(s) == call[s].pc = "loop" /\ call'[s].pc = "save"

\* C1: every allocation returns outputs/img_{k:04d}.png for the smallest
\* k >= 1 whose file is absent (with img_0001 and img_0003 present it returns
\* img_0002); from an empty directory the files appear as img_0001, img_0002,
\* img_0003, in that order.
C1_FirstGap ==
    /\ [][\A s \in Slots : AllocStep(s) =>
            /\ call'[s].filename = Filename(FirstGap(outputs))
            /\ call'[s].filename \notin Names(outputs)
            /\ (Names(outputs) = {Img0001, Img0003}
                    => call'[s].filename = Img0002)]_vars
    /\ [](StartedEmpty =>
            /\ Cardinality(Names(outputs)) = 1 => Names(outputs) = {Img0001}
            /\ Cardinality(Names(outputs)) = 2
                   => Names(outputs) = {Img0001, Img0002}
            /\ Cardinality(Names(outputs)) >= 3
                   => {Img0001, Img0002, Img0003} \subseteq Names(outputs))

\* The gap between img_0001 and img_0003 has been allocated and, in another
\* run, three files have been written into an empty directory.
C1_Witness ==
    \/ \E s \in Slots :
         /\ call[s].pc = "save"
         /\ call[s].filename = Img0002
         /\ Names(outputs) = {Img0001, Img0003}
    \/ /\ StartedEmpty
       /\ Names(outputs) = {Img0001, Img0002, Img0003}

\* C2: a file of outputs/ that exists keeps existing with the content it has.
C2_NeverOverwritten ==
    [][\A f \in Names(outputs) :
          f \in Names(outputs') /\ outputs'[f] = outputs[f]]_vars

NoDuplicates(seq) ==
    \A i, j \in 1..Len(seq) : i # j => seq[i] # seq[j]

\* C3: a call whose decoder stage returned N images saves them one by one, in
\* batch order, under N pairwise distinct filenames, one allocation per image,
\* and yields exactly these N images.
C3_DistinctFilenames ==
    /\ [](\A s \in Slots : call[s].pc \in {"loop", "save"} =>
            /\ Len(call[s].decoder_output) = call[s].req.n
            /\ Len(call[s].saved) = call[s].k - 1
            /\ call[s].k <= Len(call[s].decoder_output) + 1
            /\ NoDuplicates(call[s].saved)
            /\ (call[s].pc = "save" =>
                    /\ call[s].k <= Len(call[s].decoder_output)
                    /\ \A i \in 1..Len(call[s].saved) :
                           call[s].saved[i] # call[s].filename))
    /\ [][\A s \in Slots :
            /\ (call[s].pc = "save" /\ call'[s].pc = "loop" =>
                    /\ call'[s].saved = Append(call[s].saved, call[s].filename)
                    /\ call[s].filename \in Names(outputs')
                    /\ outputs'[call[s].filename] =
                           call[s].decoder_output[call[s].k])
            /\ (call[s].pc = "loop" /\ call'[s].pc = "done" =>
                    /\ Len(call[s].saved) = Len(call[s].decoder_output)
                    /\ call[s].req \in DOMAIN history'
                    /\ call[s].decoder_output \in history'[call[s].req].batches
                    /\ history'[call[s].req].calls =
                           (IF call[s].req \in DOMAIN history
                            THEN history[call[s].req].calls ELSE 0) + 1)]_vars

\* A call has saved both images of a batch of two and yielded it.
C3_Witness ==
    \E s \in Slots, r \in DOMAIN history :
        /\ r.n = 2
        /\ call[s].pc = "done"
        /\ \E b \in history[r].batches : Len(b) = 2

PriorInvoked(s) ==
    call[s].prior_calls >= 1 /\ call[s].pc \in {"decoder", "loop", "save"}

\* C4: the width and height the prior stage is called with lie within
\* [MIN_IMAGE_SIZE, MAX_IMAGE_SIZE].
C4_SizesWithinBounds ==
    \A s \in Slots : PriorInvoked(s) =>
        /\ MIN_IMAGE_SIZE <= call[s].req.width
        /\ call[s].req.width <= MAX_IMAGE_SIZE
        /\ MIN_IMAGE_SIZE <= call[s].req.height
        /\ call[s].req.height <= MAX_IMAGE_SIZE

\* C5: calls with the same request yield the same batch: each call seeds a
\* fresh generator from the request's seed and hands this one generator to
\* the prior stage and then to the decoder stage.
C5_Deterministic ==
    /\ \A r \in DOMAIN history : Cardinality(history[r].batches) = 1
    /\ \A s \in Slots :
         /\ (call[s].pc = "decoder" =>
                /\ call[s].generator = Advance(manual_seed(call[s].req.seed))
                /\ call[s].prior_output =
                       PriorEmbeddings(call[s].req, manual_seed(call[s].req.seed)))
         /\ (call[s].pc \in {"loop", "save"} =>
                /\ call[s].decoder_output =
                       DecoderImages(call[s].req, call[s].prior_output,
                                     Advance(manual_seed(call[s].req.seed)))
                /\ (call[s].req \in DOMAIN history =>
                       call[s].decoder_output \in history[call[s].req].batches))

\* Two calls with the same request have yielded.
C5_Witness == \E r \in DOMAIN history : history[r].calls >= 2

\* C6: on a submit event the resolver runs before generate is queued, and
\* generate starts with the seed the resolver returned for that submission.
C6_ResolverThenGenerate ==
    /\ [](\A s \in Slots :
            call[s].pc = "queued" /\ call[s].path = "submit" =>
                call[s].req.seed = call[s].resolved)
    /\ [][\A s \in Slots :
            /\ (call[s].pc # "queued" /\ call'[s].pc = "queued"
                    /\ call'[s].path = "submit" =>
                    /\ call[s].pc = "resolving"
                    /\ call'[s].resolved = call[s].resolved)
            /\ (call[s].pc = "queued" /\ call[s].path = "submit"
                    /\ call'[s].pc = "decoder" =>
                    call'[s].generator.seed = call[s].resolved)
            /\ (call[s].pc = "resolving" =>
                    call'[s].pc \in {"resolving", "queued"})]_vars

\* generate is queued with a seed the resolver drew, which is not the value
\* the Seed slider holds when the resolver's result arrives.
C6_Witness ==
    \E s \in Slots :
        /\ call[s].pc = "queued"
        /\ call[s].path = "submit"
        /\ call[s].in_rand
        /\ call[s].resolved # call[s].in_seed
        /\ \E t \in Slots : t # s /\ call[t].pc = "resolving"
                /\ call[t].resolved # call[s].resolved

FailStep(s) == call[s].pc # "failed" /\ call'[s].pc = "failed"

\* C8: a failure of a stage or of a save ends the call: each stage is called
\* at most once, the failing step leaves outputs/ as it is, nothing is
\* yielded, the files the call has saved exist, and a failure of the prior or
\* decoder stage comes before any save of the call.
C8_NoRetryNoRollback ==
    /\ [](\A s \in Slots :
            /\ call[s].prior_calls <= 1
            /\ call[s].decoder_calls <= 1
            /\ (call[s].pc = "failed" =>
                    /\ \A i \in 1..Len(call[s].saved) :
                           call[s].saved[i] \in Names(outputs)
                    /\ (call[s].error # "save" => call[s].saved = <<>>)))
    /\ [][\A s \in Slots :
            /\ (FailStep(s) =>
                    /\ outputs' = outputs
                    /\ history' = history
                    /\ call'[s].saved = call[s].saved
                    /\ call[s].pc \in {"queued", "decoder", "save"})
            /\ (call[s].pc = "failed" =>
                    \/ call'[s] = call[s]
                    \/ call'[s].pc \in {"resolving", "queued"}
                         /\ call'[s].prior_calls = 0
                         /\ call'[s].decoder_calls = 0
                         /\ call'[s].saved = <<>>)]_vars

\* The save of the second image of a batch failed after the first was written.
C8_Witness ==
    \E s \in Slots :
        /\ call[s].pc = "failed"
        /\ call[s].error = "save"
        /\ Len(call[s].saved) = 1
        /\ outputs[call[s].saved[1]] # OldImage

\* C9: callback_prior is bound, to the preview function or to None, whenever
\* a generate call reads it.
C9_CallbackBound ==
    \A s \in Slots :
        /\ (call[s].pc = "queued" => callback_prior \in {"previewer", "None"})
        /\ call[s].error # "NameError"

\* C10: randomize_seed_fn returns the seed it was given when randomize is
\* false and a value in [0, MAX_SEED] when it is true, and changes nothing
\* but its result.
C10_SeedResolver ==
    /\ [](\A s \in Slots : call[s].pc = "resolving" =>
            /\ (~call[s].in_rand => call[s].resolved = call[s].in_seed)
            /\ (call[s].in_rand =>
                    0 <= call[s].resolved /\ call[s].resolved <= MAX_SEED))
    /\ [][\A s \in Slots :
            call[s].pc # "resolving" /\ call'[s].pc = "resolving" =>
                /\ UNCHANGED <<config, outputs, seed, history>>
                /\ call'[s].in_seed = seed
                /\ \A t \in Slots \ {s} : call'[t] = call[t]]_vars

\* The resolver returned the slider's value with the checkbox off while the
\* slider is at MAX_SEED, and a drawn value with the checkbox on.
C10_Witness ==
    \E s, t \in Slots :
        /\ call[s].pc = "resolving" /\ ~call[s].in_rand
        /\ call[s].in_seed = MAX_SEED
        /\ call[t].pc = "resolving" /\ call[t].in_rand
        /\ call[t].resolved = MAX_SEED /\ call[t].in_seed = 0

====
